---------------------------- MODULE Spec2Model ----------------------------
(***************************************************************************)
(* A model of respiring/skeleton.py: the bell-tone synthesiser, the audio  *)
(* sequencer, the frame renderer, generate_video and the CLI.              *)
(*                                                                         *)
(* Numbers.  A duration of the program (a phase length, a tone duration, a *)
(* total duration) is a multiple of 1/Den second and is represented by the *)
(* integer number of such ticks: the program's 1.5 s is 3 ticks when       *)
(* Den = 2.  Sample rates, sample counts and frame indices are integers as *)
(* in the program.  Arithmetic is exact rational arithmetic carried out on *)
(* integers; for Den = 2 every value is a dyadic rational, on which the    *)
(* program's float arithmetic is exact as well.                            *)
(*                                                                         *)
(* Samples.  The waveform of a bell (sums of sines under an exponential    *)
(* envelope, normalised and quantised) is not computed: the j-th sample of *)
(* a bell of frequency f is the token <<f, j>>, and a sample written by    *)
(* np.zeros is the token <<0, 0>>.  What is modelled exactly is how many   *)
(* samples there are, where each one ends up, the dtype of every array and *)
(* every exception.                                                        *)
(***************************************************************************)
EXTENDS Integers, Sequences, FiniteSets, TLC

(* ------------------------------ bounds -------------------------------- *)

\* durations are multiples of 1/Den second
Den == 2
\* phase lengths range over -1 .. MaxPhase ticks
MaxPhase == 3
\* tone durations range over -1 .. MaxDur ticks
MaxDur == 4
\* sample rates range over 1 .. MaxRate samples per second
MaxRate == 3
\* total durations of a sequence range over -1 .. MaxTotal ticks
MaxTotal == 10
\* make_frame is called for frame indices 0 .. MaxFrames
MaxFrames == 12
\* frames per second: stands for frame_rate = 24 of generate_video
FrameRate == 2
\* samples per second: stands for sample_rate = 44100 of generate_video
SampleRate == 2
\* seconds: stands for the default duration = 300 of generate_video
DefaultDuration == 3

(* --------------------------- Python numbers --------------------------- *)

Abs(x) == IF x < 0 THEN -x ELSE x

Min(a, b) == IF a <= b THEN a ELSE b

\* int(a / b) for b # 0: Python's int() truncates toward zero
TruncDiv(a, b) ==
  LET q == Abs(a) \div Abs(b)
  IN  IF (a < 0) = (b < 0) THEN q ELSE -q

\* a % b for b # 0: the result has the sign of the divisor
PyMod(a, b) == IF b > 0 THEN a % b ELSE -((-a) % (-b))

\* round(a / b) for b > 0: Python rounds a half to the even neighbour
PyRound(a, b) ==
  LET fl == IF a >= 0 THEN a \div b ELSE -((-a + b - 1) \div b)
      r2 == 2 * (a - fl * b)
  IN  IF r2 < b THEN fl
      ELSE IF r2 > b THEN fl + 1
      ELSE IF fl % 2 = 0 THEN fl ELSE fl + 1

(* ------------------------------ arrays -------------------------------- *)

\* a numpy array: its dtype and its elements; err = "" when the call returned
Array(dtype, data) == [err |-> "", dtype |-> dtype, data |-> data]

\* a call that raised instead of returning
Raise(e) == [err |-> e, dtype |-> "", data |-> <<>>]

\* one element written by np.zeros
Zero == <<0, 0>>

\* np.zeros(m, dtype=np.int16): negative dimensions are not allowed
np_zeros(m) ==
  IF m < 0 THEN Raise("ValueError")
  ELSE Array("int16", [j \in 1..m |-> Zero])

\* np.linspace(0, duration, num, False): sample j is taken at j * duration / num
np_linspace(num) ==
  IF num < 0 THEN Raise("ValueError")
  ELSE Array("float64", [j \in 1..num |-> j - 1])

(* --------------------- BreathingExercise.__init__ -------------------- *)

\* sum(pattern)
Sum(p) == p[1] + p[2] + p[3]

(* ----------------------- generate_bell_sound -------------------------- *)

\* a variant of num_samples that rounds the product instead of cutting it
num_samples_rounded(duration, sample_rate) == PyRound(duration * sample_rate, Den)

\* int(duration * sample_rate)
num_samples(duration, sample_rate) == TruncDiv(duration * sample_rate, Den)

\* np.int16(sound * 32767) after sound /= np.max(np.abs(sound)): the maximum
\* of an empty array has no identity and raises
normalize_int16(fundamental_frequency, t) ==
  IF Len(t.data) = 0 THEN Raise("ValueError")
  ELSE Array("int16",
             [j \in 1..Len(t.data) |-> <<fundamental_frequency, t.data[j]>>])

generate_bell_sound(fundamental_frequency, duration, sample_rate) ==
  LET t == np_linspace(num_samples(duration, sample_rate))
  IN  IF t.err # "" THEN t
      ELSE normalize_int16(fundamental_frequency, t)

(* ----------------------- sequence_bell_sounds ------------------------- *)

\* np.concatenate of int16 arrays
np_concatenate(arrays) ==
  LET RECURSIVE Cat(_)
      Cat(i) == IF i > Len(arrays) THEN <<>> ELSE arrays[i].data \o Cat(i + 1)
  IN  Array("int16", Cat(1))

\* a variant of cycle_count that counts a started cycle as a whole one
cycle_count_rounded_up(duration, cycle_duration) ==
  IF duration >= 0 /\ cycle_duration > 0
  THEN (duration + cycle_duration - 1) \div cycle_duration
  ELSE TruncDiv(duration, cycle_duration)

\* int(duration / self.cycle_duration)
cycle_count(duration, cycle_duration) == TruncDiv(duration, cycle_duration)

\* for _ in range(cycle_count): sound_sequence = concatenate(sound_sequence, cycle)
RECURSIVE repeat_cycles(_, _, _)
repeat_cycles(sound_sequence, cycle_sounds, n) ==
  IF n <= 0 THEN sound_sequence
  ELSE repeat_cycles(np_concatenate(<<sound_sequence, cycle_sounds>>),
                     cycle_sounds, n - 1)

\* a variant of sequence_bell_sounds that puts the silence first in a cycle
sequence_bell_sounds_hold_first(pattern, cycle_duration, high_freq, low_freq, duration, sample_rate) ==
  LET inhale_sound == generate_bell_sound(high_freq, pattern[1], sample_rate)
      hold_sound   == np_zeros(num_samples(pattern[2], sample_rate))
      exhale_sound == generate_bell_sound(low_freq, pattern[3], sample_rate)
  IN  IF inhale_sound.err # "" THEN inhale_sound
      ELSE IF hold_sound.err # "" THEN hold_sound
      ELSE IF exhale_sound.err # "" THEN exhale_sound
      ELSE IF cycle_duration = 0 THEN Raise("ZeroDivisionError")
      ELSE repeat_cycles(Array("int16", <<>>),
                         np_concatenate(<<hold_sound, inhale_sound, exhale_sound>>),
                         cycle_count(duration, cycle_duration))

\* the three sounds are built once, then one cycle of them is appended
\* cycle_count times; an exception of a callee ends the call
sequence_bell_sounds(pattern, cycle_duration, high_freq, low_freq, duration, sample_rate) ==
  LET inhale_sound == generate_bell_sound(high_freq, pattern[1], sample_rate)
      hold_sound   == np_zeros(num_samples(pattern[2], sample_rate))
      exhale_sound == generate_bell_sound(low_freq, pattern[3], sample_rate)
  IN  IF inhale_sound.err # "" THEN inhale_sound
      ELSE IF hold_sound.err # "" THEN hold_sound
      ELSE IF exhale_sound.err # "" THEN exhale_sound
      ELSE IF cycle_duration = 0 THEN Raise("ZeroDivisionError")
      ELSE repeat_cycles(Array("int16", <<>>),
                         np_concatenate(<<inhale_sound, hold_sound, exhale_sound>>),
                         cycle_count(duration, cycle_duration))

(* ----------------------------- make_frame ----------------------------- *)

\* canvas_size = (640, 480)
canvas_size == <<640, 480>>

\* center = (int(canvas_size[0] / 2), int(canvas_size[1] / 2))
center == <<TruncDiv(canvas_size[1], 2), TruncDiv(canvas_size[2], 2)>>

\* max_radius = min(canvas_size) / 4
max_radius == Min(canvas_size[1], canvas_size[2]) \div 4

inhale_color == <<150, 200, 150>>

hold_color == <<220, 220, 250>>

exhale_color == <<200, 150, 150>>

black == <<0, 0, 0>>

\* a frame that was returned: the raster's shape, the circle drawn on it and
\* the pixel frame[0, 0]; the circle is filled, so a pixel is painted when it
\* lies within the radius of the centre
Frame(radius, color) ==
  [err    |-> "",
   shape  |-> <<canvas_size[2], canvas_size[1], 3>>,
   radius |-> radius,
   color  |-> color,
   corner |-> IF center[1] * center[1] + center[2] * center[2] <= radius * radius
              THEN color ELSE black]

\* a call of make_frame that raised
NoFrame(e) == [err |-> e, shape |-> <<>>, radius |-> 0, color |-> <<>>, corner |-> <<>>]

\* cv2.circle(frame, center, int(radius), color, -1) on a fresh black frame:
\* OpenCV refuses a negative radius
cv2_circle(radius, color) ==
  IF radius < 0 THEN NoFrame("cv2.error") ELSE Frame(radius, color)

\* cycle_progress = t % phase_duration for t = tn / td seconds (td > 0), in
\* units of 1 / (Den * td) second; the cycle is not 0
cycle_progress(cycle_duration, tn, td) == PyMod(tn * Den, cycle_duration * td)

\* make_frame(t) for t = tn / td seconds; every quantity of the body is held
\* in units of 1 / (Den * td) second, so that a division x / y of the program
\* is the exact quotient of two integers and int() its truncation
make_frame(pattern, cycle_duration, tn, td) ==
  LET inhale_duration == pattern[1] * td
      hold_duration   == pattern[2] * td
      exhale_duration == pattern[3] * td
      cp              == cycle_progress(cycle_duration, tn, td)
  IN  IF cycle_duration = 0 THEN NoFrame("ZeroDivisionError")
      ELSE IF cp <= inhale_duration
        THEN IF inhale_duration = 0 THEN NoFrame("ZeroDivisionError")
             ELSE cv2_circle(TruncDiv(max_radius * cp, inhale_duration), inhale_color)
      ELSE IF cp <= inhale_duration + hold_duration
        THEN cv2_circle(max_radius, hold_color)
      ELSE IF exhale_duration = 0 THEN NoFrame("ZeroDivisionError")
      ELSE cv2_circle(TruncDiv(max_radius * (exhale_duration - (cp - inhale_duration - hold_duration)), exhale_duration), exhale_color)

(* -------------------------------- CLI --------------------------------- *)
(* A command-line argument is the sequence of its characters.             *)

digits == <<"0", "1", "2", "3", "4", "5", "6", "7", "8", "9">>

IsDigit(c) == \E d \in 1..Len(digits) : digits[d] = c

DigitVal(c) == (CHOOSE d \in 1..Len(digits) : digits[d] = c) - 1

\* str.strip(): whitespace removed at both ends
RECURSIVE lstrip(_)
lstrip(s) == IF s # <<>> /\ Head(s) = " " THEN lstrip(Tail(s)) ELSE s

RECURSIVE rstrip(_)
rstrip(s) ==
  IF s # <<>> /\ s[Len(s)] = " " THEN rstrip(SubSeq(s, 1, Len(s) - 1)) ELSE s

\* the value of a string of digits
RECURSIVE decimal(_)
decimal(s) ==
  IF s = <<>> THEN 0
  ELSE 10 * decimal(SubSeq(s, 1, Len(s) - 1)) + DigitVal(s[Len(s)])

\* int(x) of a string: surrounding whitespace and one sign are allowed, the
\* rest must be one digit or more; anything else is a ValueError
py_int(x) ==
  LET u    == rstrip(lstrip(x))
      sign == u # <<>> /\ Head(u) \in {"+", "-"}
      body == IF sign THEN Tail(u) ELSE u
  IN  IF body = <<>> \/ \E i \in 1..Len(body) : ~IsDigit(body[i])
      THEN [err |-> "ValueError", value |-> 0]
      ELSE [err |-> "", value |-> IF sign /\ Head(u) = "-" THEN -decimal(body) ELSE decimal(body)]

\* x.split(",")
RECURSIVE split_comma(_)
split_comma(x) ==
  IF \A i \in 1..Len(x) : x[i] # "," THEN <<x>>
  ELSE LET i == CHOOSE i \in 1..Len(x) : x[i] = "," /\ \A j \in 1..(i - 1) : x[j] # ","
       IN  <<SubSeq(x, 1, i - 1)>> \o split_comma(SubSeq(x, i + 1, Len(x)))

\* type=lambda x: tuple(map(int, x.split(","))), in seconds
pattern_type(x) ==
  LET parts == split_comma(x)
      ints  == [i \in 1..Len(parts) |-> py_int(parts[i])]
  IN  IF \E i \in 1..Len(parts) : ints[i].err # ""
      THEN [err |-> "ValueError", value |-> <<>>]
      ELSE [err |-> "", value |-> [i \in 1..Len(parts) |-> ints[i].value]]

opt_version == <<"-", "-", "v", "e", "r", "s", "i", "o", "n">>

opt_p == <<"-", "p">>

opt_pattern == <<"-", "-", "p", "a", "t", "t", "e", "r", "n">>

opt_v == <<"-", "v">>

opt_verbose == <<"-", "-", "v", "e", "r", "b", "o", "s", "e">>

opt_vv == <<"-", "v", "v">>

opt_very_verbose == <<"-", "-", "v", "e", "r", "y", "-", "v", "e", "r", "b", "o", "s", "e">>

\* the option strings the parser was given by add_argument
option_strings == {opt_version, opt_p, opt_pattern, opt_v, opt_verbose, opt_vv, opt_very_verbose}

\* argparse takes an argument for an option when it starts with "-", unless it
\* is "-" itself, holds a space or reads as a negative number (abbreviations
\* and "--opt=value" are not among the arguments drawn here)
looks_like_option(arg) ==
  /\ arg # <<>>
  /\ Head(arg) = "-"
  /\ \/ arg \in option_strings
     \/ /\ Len(arg) > 1
        /\ \A i \in 1..Len(arg) : arg[i] # " "
        /\ \E i \in 2..Len(arg) : ~IsDigit(arg[i])

\* default=(4, 7, 8)
default_pattern == <<4, 7, 8>>

\* the namespace parse_args returns; exit = -1 when it returned, else the
\* status of the SystemExit it raised
Namespace(exit, pattern, loglevel) == [exit |-> exit, pattern |-> pattern, loglevel |-> loglevel]

\* parser.parse_args(args): the arguments are consumed from left to right; an
\* argument no add_argument declared is kept aside and reported at the end
\* ("unrecognized arguments", status 2)
RECURSIVE consume_args(_, _, _, _)
consume_args(args, i, ns, extras) ==
  IF i > Len(args)
    THEN IF extras # <<>> THEN Namespace(2, ns.pattern, ns.loglevel) ELSE ns
  ELSE IF args[i] = opt_version THEN Namespace(0, ns.pattern, ns.loglevel)
  ELSE IF args[i] \in {opt_p, opt_pattern}
    THEN IF i + 1 > Len(args) \/ looks_like_option(args[i + 1])
           THEN Namespace(2, ns.pattern, ns.loglevel)
         ELSE LET v == pattern_type(args[i + 1])
              IN  IF v.err # "" THEN Namespace(2, ns.pattern, ns.loglevel)
                  ELSE consume_args(args, i + 2, Namespace(-1, v.value, ns.loglevel), extras)
  ELSE IF args[i] \in {opt_v, opt_verbose}
    THEN consume_args(args, i + 1, Namespace(-1, ns.pattern, "INFO"), extras)
  ELSE IF args[i] \in {opt_vv, opt_very_verbose}
    THEN consume_args(args, i + 1, Namespace(-1, ns.pattern, "DEBUG"), extras)
  ELSE consume_args(args, i + 1, ns, Append(extras, args[i]))

parse_args(args) == consume_args(args, 1, Namespace(-1, default_pattern, "None"), <<>>)

(* ------------------------------ inputs -------------------------------- *)

\* high_freq = 880
high_freq == 880

\* low_freq = 440
low_freq == 440

Freqs == {low_freq, high_freq}

Phases == -1..MaxPhase

Patterns == {<<i, h, e>> : i \in Phases, h \in Phases, e \in Phases}

Rates == 1..MaxRate

opt_output == <<"-", "-", "o", "u", "t", "p", "u", "t">>

output_filepath == <<"t", ".", "m", "p", "4">>

PatternStrings ==
  { <<"6", ",", " ", "0", ",", " ", "6">>,
    <<"1", ",", "1", ",", "1">>,
    <<"1", ",", "0", ",", "2">>,
    <<"0", ",", "1", ",", "1">>,
    <<"0", ",", "0", ",", "0">>,
    <<" ", "-", "1", ",", "2", ",", "2">>,
    <<"-", "1", ",", "2", ",", "2">>,
    <<"1", ",", ",", "1">> }

ArgLists ==
  { <<>>, <<opt_v>>, <<opt_vv>>, <<opt_version>>, <<opt_pattern>>, <<output_filepath>> }
  \cup { <<opt_pattern, x>> : x \in PatternStrings }
  \cup { <<opt_p, x, opt_verbose>> : x \in PatternStrings }
  \cup { <<opt_pattern, x, opt_output, output_filepath>> : x \in PatternStrings }

(* ------------------------------- state -------------------------------- *)

VARIABLES
  pc,              \* the statement the run is at
  argv,            \* the arguments main was called with
  parsed_args,     \* main's parsed_args
  gv_args,         \* generate_video's parameters duration and pattern, in ticks
  exercise,        \* the BreathingExercise: its pattern and cycle_duration
  call,            \* the latest call made on the API by a client, and its result
  sound_sequence,  \* generate_video's sound_sequence
  wav,             \* the content of breathing_bells.wav
  video,           \* the encoder: frames rendered so far and the latest frame
  calls,           \* the generation calls generate_video has made
  stdout           \* what has been printed

vars == <<pc, argv, parsed_args, gv_args, exercise, call, sound_sequence, wav, video, calls, stdout>>

NoArgs == [duration |-> 0, pattern |-> <<>>, from_main |-> FALSE]

NoExercise == [pattern |-> <<>>, cycle_duration |-> 0]

NoCall == [op |-> "", args |-> <<>>, res |-> Raise("")]

NoWav == [rate |-> 0, data |-> <<>>]

NoVideo == [k |-> 0, frame |-> NoFrame("")]

Init ==
  /\ pc = "start"
  /\ argv = <<>>
  /\ parsed_args = Namespace(-1, <<>>, "None")
  /\ gv_args = NoArgs
  /\ exercise = NoExercise
  /\ call = NoCall
  /\ sound_sequence = Raise("")
  /\ wav = NoWav
  /\ video = NoVideo
  /\ calls = {}
  /\ stdout = {}

\* BreathingExercise(pattern): the pattern is stored as given
BreathingExercise(pattern) == [pattern |-> pattern, cycle_duration |-> Sum(pattern)]

(* --------------------- a client calling the API ----------------------- *)

\* exercise = BreathingExercise(pattern=p)
New(p) ==
  /\ pc = "start"
  /\ exercise' = BreathingExercise(p)
  /\ pc' = "ready"
  /\ UNCHANGED <<argv, parsed_args, gv_args, call, sound_sequence, wav, video, calls, stdout>>

\* BreathingExercise.generate_bell_sound(f, d, sr): a static method, which
\* needs no exercise
CallGenerateBellSound(f, d, sr) ==
  /\ pc \in {"start", "static"}
  /\ call' = [op |-> "generate_bell_sound", args |-> <<f, d, sr>>, res |-> generate_bell_sound(f, d, sr)]
  /\ pc' = "static"
  /\ UNCHANGED <<argv, parsed_args, gv_args, exercise, sound_sequence, wav, video, calls, stdout>>

\* exercise.sequence_bell_sounds(high_freq, low_freq, d, sr)
CallSequenceBellSounds(d, sr) ==
  /\ pc = "ready"
  /\ call' = [op |-> "sequence_bell_sounds", args |-> <<d, sr>>, res |-> sequence_bell_sounds(exercise.pattern, exercise.cycle_duration, high_freq, low_freq, d, sr)]
  /\ UNCHANGED <<pc, argv, parsed_args, gv_args, exercise, sound_sequence, wav, video, calls, stdout>>

\* exercise.make_frame(k / FrameRate)
CallMakeFrame(k) ==
  /\ pc = "ready"
  /\ call' = [op |-> "make_frame", args |-> <<k>>, res |-> make_frame(exercise.pattern, exercise.cycle_duration, k, FrameRate)]
  /\ UNCHANGED <<pc, argv, parsed_args, gv_args, exercise, sound_sequence, wav, video, calls, stdout>>

(* ------------------------------- main --------------------------------- *)

\* main(a)
Main(a) ==
  /\ pc = "start"
  /\ argv' = a
  /\ pc' = "main_206"
  /\ UNCHANGED <<parsed_args, gv_args, exercise, call, sound_sequence, wav, video, calls, stdout>>

\* parsed_args = parse_args(args); argparse leaves by SystemExit on --version
\* and on an error
ParseArgs ==
  /\ pc = "main_206"
  /\ parsed_args' = parse_args(argv)
  /\ pc' = IF parsed_args'.exit >= 0 THEN "SystemExit" ELSE "main_207"
  /\ stdout' = IF parsed_args'.exit = 0 THEN stdout \cup {"respiring version"} ELSE stdout
  /\ UNCHANGED <<argv, gv_args, exercise, call, sound_sequence, wav, video, calls>>

\* setup_logging(parsed_args.loglevel); _logger.debug(...)
SetupLogging ==
  /\ pc = "main_207"
  /\ stdout' = IF parsed_args.loglevel = "DEBUG" THEN stdout \cup {"Starting crazy calculations..."} ELSE stdout
  /\ pc' = "main_209"
  /\ UNCHANGED <<argv, parsed_args, gv_args, exercise, call, sound_sequence, wav, video, calls>>

\* generate_video(pattern=parsed_args.pattern): the duration is the default
MainGenerateVideo ==
  /\ pc = "main_209"
  /\ gv_args' = [duration |-> DefaultDuration * Den, pattern |-> [i \in 1..Len(parsed_args.pattern) |-> parsed_args.pattern[i] * Den], from_main |-> TRUE]
  /\ pc' = "gv_108"
  /\ UNCHANGED <<argv, parsed_args, exercise, call, sound_sequence, wav, video, calls, stdout>>

\* _logger.info("Script ends here")
MainEnd ==
  /\ pc = "main_210"
  /\ stdout' = IF parsed_args.loglevel \in {"INFO", "DEBUG"} THEN stdout \cup {"Script ends here"} ELSE stdout
  /\ pc' = "done"
  /\ UNCHANGED <<argv, parsed_args, gv_args, exercise, call, sound_sequence, wav, video, calls>>

(* --------------------------- generate_video --------------------------- *)

\* generate_video(duration=d, pattern=p) called by a client
GenerateVideo(d, p) ==
  /\ pc = "start"
  /\ gv_args' = [duration |-> d, pattern |-> p, from_main |-> FALSE]
  /\ pc' = "gv_108"
  /\ UNCHANGED <<argv, parsed_args, exercise, call, sound_sequence, wav, video, calls, stdout>>

\* breathing_exercise = BreathingExercise(pattern=pattern)
GvConstruct ==
  /\ pc = "gv_108"
  /\ exercise' = BreathingExercise(gv_args.pattern)
  /\ pc' = "gv_111"
  /\ UNCHANGED <<argv, parsed_args, gv_args, call, sound_sequence, wav, video, calls, stdout>>

\* sound_sequence = breathing_exercise.sequence_bell_sounds(...)
GvSequence ==
  /\ pc = "gv_111"
  /\ calls' = calls \cup {"sequence_bell_sounds"}
  /\ sound_sequence' = sequence_bell_sounds(exercise.pattern, exercise.cycle_duration, high_freq, low_freq, gv_args.duration, SampleRate)
  /\ pc' = IF sound_sequence'.err # "" THEN "raised" ELSE "gv_117"
  /\ UNCHANGED <<argv, parsed_args, gv_args, exercise, call, wav, video, stdout>>

\* write(sound_filename, sample_rate, sound_sequence)
GvWriteWav ==
  /\ pc = "gv_117"
  /\ calls' = calls \cup {"write"}
  /\ wav' = [rate |-> SampleRate, data |-> sound_sequence.data]
  /\ pc' = "gv_120"
  /\ UNCHANGED <<argv, parsed_args, gv_args, exercise, call, sound_sequence, video, stdout>>

\* video_clip = VideoClip(make_frame, duration).set_fps(frame_rate), then
\* set_audio(AudioFileClip(sound_filename))
GvVideoClip ==
  /\ pc = "gv_120"
  /\ calls' = calls \cup {"VideoClip"}
  /\ pc' = "gv_129"
  /\ UNCHANGED <<argv, parsed_args, gv_args, exercise, call, sound_sequence, wav, video, stdout>>

\* video_clip.write_videofile(...): the encoder announces the video
GvWriteVideofile ==
  /\ pc = "gv_129"
  /\ calls' = calls \cup {"write_videofile"}
  /\ stdout' = stdout \cup {"Building video"}
  /\ video' = NoVideo
  /\ pc' = "encoding"
  /\ UNCHANGED <<argv, parsed_args, gv_args, exercise, call, sound_sequence, wav>>

\* the number of frames of a clip: one at each t = k / fps below the duration
frame_count(duration) == (duration * FrameRate + Den - 1) \div Den

\* the encoder asks for the next frame: make_frame(k / fps)
GvEncodeFrame ==
  /\ pc = "encoding"
  /\ video.k < frame_count(gv_args.duration)
  /\ calls' = calls \cup {"make_frame"}
  /\ video' = [k |-> video.k + 1, frame |-> make_frame(exercise.pattern, exercise.cycle_duration, video.k, FrameRate)]
  /\ pc' = IF video'.frame.err # "" THEN "raised" ELSE "encoding"
  /\ UNCHANGED <<argv, parsed_args, gv_args, exercise, call, sound_sequence, wav, stdout>>

\* the last frame is written; _logger.info(... saved ...) and return
GvReturn ==
  /\ pc = "encoding"
  /\ video.k >= frame_count(gv_args.duration)
  /\ stdout' = IF gv_args.from_main /\ parsed_args.loglevel \in {"INFO", "DEBUG"} THEN stdout \cup {"saved"} ELSE stdout
  /\ pc' = IF gv_args.from_main THEN "main_210" ELSE "done"
  /\ UNCHANGED <<argv, parsed_args, gv_args, exercise, call, sound_sequence, wav, video, calls>>

Next ==
  \/ \E p \in Patterns : New(p)
  \/ \E f \in Freqs, d \in -1..MaxDur, sr \in Rates : CallGenerateBellSound(f, d, sr)
  \/ \E d \in -1..MaxTotal, sr \in Rates : CallSequenceBellSounds(d, sr)
  \/ \E k \in 0..MaxFrames : CallMakeFrame(k)
  \/ \E a \in ArgLists : Main(a)
  \/ ParseArgs
  \/ SetupLogging
  \/ MainGenerateVideo
  \/ MainEnd
  \/ \E d \in 0..MaxDur, p \in Patterns : GenerateVideo(d, p)
  \/ GvConstruct
  \/ GvSequence
  \/ GvWriteWav
  \/ GvVideoClip
  \/ GvWriteVideofile
  \/ GvEncodeFrame
  \/ GvReturn

Spec == Init /\ [][Next]_vars

(* ------------------------------ claims -------------------------------- *)

\* a valid pattern: no negative phase, and a cycle longer than 0
Valid(p) == p[1] >= 0 /\ p[2] >= 0 /\ p[3] >= 0 /\ Sum(p) > 0

\* every phase is a whole number of samples long
WholeSamples(p, sr) == \A j \in 1..3 : (p[j] * sr) % Den = 0

\* a sample whose value is 0 whatever the bell: one written by np.zeros, or
\* the first sample of a bell, taken at t = 0 where every sine is 0
ZeroValued(s) == s[2] = 0

\* the client's latest call was sequence_bell_sounds
SeqCalled == pc = "ready" /\ call.op = "sequence_bell_sounds"

\* the client's latest call was generate_bell_sound
BellCalled == pc = "static" /\ call.op = "generate_bell_sound"

\* the client's latest call was make_frame
FrameCalled == pc = "ready" /\ call.op = "make_frame"

\* C1: for a valid pattern, a total duration >= 0 and a sample rate,
\* sequence_bell_sounds returns exactly
\* floor(total_duration / cycle_duration) * cycle_duration * sample_rate
\* samples.  Stated here for the patterns whose phases are whole numbers of
\* samples, as all patterns of whole seconds are.
C1_WholeCyclesLength ==
  (SeqCalled /\ Valid(exercise.pattern) /\ call.args[1] >= 0 /\ WholeSamples(exercise.pattern, call.args[2])) =>
    /\ call.res.err = ""
    /\ Len(call.res.data) = ((call.args[1] \div exercise.cycle_duration) * exercise.cycle_duration * call.args[2]) \div Den

\* C2 as claimed: in the output of sequence_bell_sounds, every sample of the
\* hold range of every emitted cycle is 0.
C2_HoldSilent_AsClaimed ==
  (SeqCalled /\ call.res.err = "" /\ Valid(exercise.pattern)) =>
    \A k \in 0..((call.args[1] \div exercise.cycle_duration) - 1) :
      \A i \in 0..(Len(call.res.data) - 1) :
        ( /\ (k * exercise.cycle_duration + exercise.pattern[1]) * call.args[2] <= i * Den
          /\ i * Den < (k * exercise.cycle_duration + exercise.pattern[1] + exercise.pattern[2]) * call.args[2] )
        => ZeroValued(call.res.data[i + 1])

\* C2 as amended: when every phase is a whole number of samples long, every
\* sample of the hold range of every emitted cycle is 0.
C2_HoldSilent ==
  (SeqCalled /\ call.res.err = "" /\ Valid(exercise.pattern) /\ WholeSamples(exercise.pattern, call.args[2])) =>
    \A k \in 0..((call.args[1] \div exercise.cycle_duration) - 1) :
      \A i \in 0..(Len(call.res.data) - 1) :
        ( /\ (k * exercise.cycle_duration + exercise.pattern[1]) * call.args[2] <= i * Den
          /\ i * Den < (k * exercise.cycle_duration + exercise.pattern[1] + exercise.pattern[2]) * call.args[2] )
        => ZeroValued(call.res.data[i + 1])

\* C2's case: a sequence of two cycles or more of a pattern with a hold phase,
\* every phase a whole number of samples, was returned
C2_Witness ==
  /\ SeqCalled /\ call.res.err = "" /\ Valid(exercise.pattern)
  /\ WholeSamples(exercise.pattern, call.args[2])
  /\ exercise.pattern[2] > 0
  /\ call.args[1] \div exercise.cycle_duration >= 2
  /\ \E i \in 1..Len(call.res.data) : call.res.data[i] = Zero

\* C3 as claimed: for a duration > 0, generate_bell_sound returns 16-bit
\* integers, round(duration * sample_rate) of them.  Stated here for the
\* calls that return.
C3_Length_AsClaimed ==
  (BellCalled /\ call.args[1] > 0 /\ call.args[2] > 0 /\ call.args[3] > 0 /\ call.res.err = "") =>
    /\ call.res.dtype = "int16"
    /\ Len(call.res.data) = PyRound(call.args[2] * call.args[3], Den)

\* C3 as amended: for a duration > 0, generate_bell_sound returns 16-bit
\* integers, int(duration * sample_rate) of them (the product cut to its whole
\* part), when that is 1 or more, and raises ValueError when it is 0.
C3_Length ==
  (BellCalled /\ call.args[1] > 0 /\ call.args[2] > 0 /\ call.args[3] > 0) =>
    IF call.args[2] * call.args[3] >= Den
    THEN /\ call.res.err = ""
         /\ call.res.dtype = "int16"
         /\ Len(call.res.data) = (call.args[2] * call.args[3]) \div Den
    ELSE call.res.err = "ValueError"

\* C3's case: a bell whose duration is not a whole number of samples was
\* returned
C3_Witness ==
  /\ BellCalled /\ call.res.err = ""
  /\ (call.args[2] * call.args[3]) % Den # 0
  /\ Len(call.res.data) >= 2

\* C4: a tone of zero samples (duration <= 0, or duration * sample_rate < 1)
\* is returned as an empty sequence.
C4_EmptyTone ==
  (BellCalled /\ call.args[2] * call.args[3] < Den) =>
    call.res.err = "" /\ call.res.data = <<>>

\* C5: for a valid pattern make_frame never raises a division error.
C5_NoDivisionError ==
  (FrameCalled /\ Valid(exercise.pattern)) => call.res.err # "ZeroDivisionError"

\* C6: for an invalid pattern generate_video makes no call of
\* sequence_bell_sounds, make_frame, the audio writer or the video encoder.
C6_InvalidRejected ==
  (gv_args.pattern # <<>> /\ ~Valid(gv_args.pattern)) => calls = {}

\* C7: for a valid pattern make_frame returns a 480 x 640 x 3 raster whose
\* pixel (0, 0) is black, the circle's radius being in 0 .. 120.
C7_FrameShapeAndCorner ==
  (FrameCalled /\ Valid(exercise.pattern)) =>
    /\ call.res.err = ""
    /\ call.res.shape = <<480, 640, 3>>
    /\ call.res.corner = <<0, 0, 0>>
    /\ call.res.radius \in 0..120

\* C8: main(["--pattern", "6, 0, 6", "--output", path]) parses to the pattern
\* (6, 0, 6) and goes on to generate the video.
C8_OutputAccepted ==
  (argv = <<opt_pattern, <<"6", ",", " ", "0", ",", " ", "6">>, opt_output, output_filepath>> /\ pc # "main_206") =>
    /\ pc # "SystemExit"
    /\ parsed_args.exit = -1
    /\ parsed_args.pattern = <<6, 0, 6>>

\* the phase a frame renders, by its colour
PhaseOf(frame) ==
  IF frame.err # "" THEN "none"
  ELSE IF frame.color = inhale_color THEN "inhale"
  ELSE IF frame.color = hold_color THEN "hold"
  ELSE "exhale"

\* the phases that may follow phase ph in a pattern p: ph itself, and the next
\* phase of the cycle inhale -> hold -> exhale -> inhale that is longer than 0
MayFollow(p, ph) ==
  LET order == <<"inhale", "hold", "exhale">>
      at    == CHOOSE j \in 1..3 : order[j] = ph
      nxt(j) == (j % 3) + 1
      n1    == nxt(at)
      n2    == nxt(n1)
  IN  {ph} \cup (IF p[n1] > 0 THEN {order[n1]}
                 ELSE IF p[n2] > 0 THEN {order[n2]} ELSE {})

\* every phase of p that is longer than 0 lasts 1 / FrameRate second or more
SlowEnough(p) == \A j \in 1..3 : p[j] = 0 \/ p[j] * FrameRate >= Den

\* C9: over frames at t = 0, 1/frame_rate, 2/frame_rate, ... the phase stays
\* or advances to the next phase of the cycle; the frame at the start of a
\* cycle is an inhale frame of radius 0; with hold = 0 no hold frame is
\* rendered.
C9_PhaseOrder ==
  [][ (call'.op = "make_frame" /\ Valid(exercise'.pattern) /\ SlowEnough(exercise'.pattern)) =>
        /\ (cycle_progress(exercise'.cycle_duration, call'.args[1], FrameRate) = 0) =>
             (PhaseOf(call'.res) = "inhale" /\ call'.res.radius = 0)
        /\ (exercise'.pattern[2] = 0) => (PhaseOf(call'.res) # "hold")
        /\ (call.op = "make_frame" /\ call'.args[1] = call.args[1] + 1 /\ PhaseOf(call.res) # "none") =>
             (PhaseOf(call'.res) \in MayFollow(exercise'.pattern, PhaseOf(call.res)))
    ]_vars

\* the indices (from 0) at which a bell of frequency f starts in data
StartsOf(data, f) == {i \in 0..(Len(data) - 1) : data[i + 1] = <<f, 0>>}

\* the k-th (from 0) smallest element of S
Kth(S, k) == CHOOSE x \in S : Cardinality({y \in S : y < x}) = k

\* the sample of the time offset ticks into cycle k (from 0) of a cycle of c
\* ticks, at sr samples per second; a fractional index is cut to its whole part
SampleOf(k, c, offset, sr) == ((k * c + offset) * sr) \div Den

\* the inhale and the exhale bells of the n emitted cycles start in data at
\* the samples of the starts of the inhale and of the exhale phases
BellsStartAt(p, c, n, sr, data) ==
  /\ Cardinality(StartsOf(data, high_freq)) = n
  /\ Cardinality(StartsOf(data, low_freq)) = n
  /\ \A k \in 0..(n - 1) :
       /\ Kth(StartsOf(data, high_freq), k) = SampleOf(k, c, 0, sr)
       /\ Kth(StartsOf(data, low_freq), k) = SampleOf(k, c, p[1] + p[2], sr)

\* C10 as claimed: in the output of sequence_bell_sounds the k-th inhale bell
\* starts at sample k * cycle_duration * sample_rate and the k-th exhale bell
\* at sample (k * cycle_duration + inhale + hold) * sample_rate; no offset
\* builds up from cycle to cycle.  A fractional index is read as its whole
\* part.
C10_InSync_AsClaimed ==
  (SeqCalled /\ call.res.err = "" /\ Valid(exercise.pattern) /\ call.args[1] >= 0) =>
    BellsStartAt(exercise.pattern, exercise.cycle_duration, call.args[1] \div exercise.cycle_duration, call.args[2], call.res.data)

\* C10 as amended: when every phase is a whole number of samples long, the
\* k-th inhale bell starts at sample k * cycle_duration * sample_rate and the
\* k-th exhale bell at sample (k * cycle_duration + inhale + hold) *
\* sample_rate, and at the times of these samples make_frame has
\* cycle_progress 0 and inhale + hold.
C10_InSync ==
  (SeqCalled /\ call.res.err = "" /\ Valid(exercise.pattern) /\ call.args[1] >= 0 /\ WholeSamples(exercise.pattern, call.args[2])) =>
    LET sr == call.args[2]
        c  == exercise.cycle_duration
        n  == call.args[1] \div c
    IN  /\ BellsStartAt(exercise.pattern, c, n, sr, call.res.data)
        /\ \A k \in 0..(n - 1) :
             /\ (k * c * sr) % Den = 0
             /\ ((k * c + exercise.pattern[1] + exercise.pattern[2]) * sr) % Den = 0
             /\ cycle_progress(c, Kth(StartsOf(call.res.data, high_freq), k), sr) = 0
             /\ cycle_progress(c, Kth(StartsOf(call.res.data, low_freq), k), sr) = (exercise.pattern[1] + exercise.pattern[2]) * sr

\* C10's case: three cycles or more were returned, every phase a whole number
\* of samples long, the inhale and the exhale of different lengths
C10_Witness ==
  /\ SeqCalled /\ call.res.err = "" /\ Valid(exercise.pattern)
  /\ WholeSamples(exercise.pattern, call.args[2])
  /\ exercise.pattern[1] # exercise.pattern[3]
  /\ Cardinality(StartsOf(call.res.data, low_freq)) >= 3

=============================================================================
